---- MODULE Spec2Model ----
(***************************************************************************)
(* A model of src/utils.py of the 4TCT tool: the LoggerManager (logger     *)
(* lifecycle, log file naming, retention cleanup), the JSON configuration  *)
(* loader and the --request-time-limit validator.                          *)
(*                                                                         *)
(* Strings are sequences of one-character strings, so that slicing,        *)
(* formatting and parsing are computed the way the code computes them.     *)
(***************************************************************************)
EXTENDS Integers, Sequences, FiniteSets, TLC

VARIABLES
    clock,      \* what datetime.utcnow() returns now
    files,      \* the names of the files in the log folder
    handlers,   \* the handlers of logging.getLogger("4chan_requester")
    mgrs,       \* the LoggerManager instances of the process
    setups,     \* history: the setup_logging calls made, oldest first
    lastOp,     \* the last LoggerManager operation and how it ended
    fs,         \* config loader: what config_path holds on disk
    loaded,     \* config loader: outcome of load_and_validate_config
    argv,       \* validator: the command-line text of --request-time-limit
    checked     \* validator: outcome of check_positive_float

vars ==
    <<clock, files, handlers, mgrs, setups, lastOp, fs, loaded, argv, checked>>

configVars == <<fs, loaded>>
argVars == <<argv, checked>>

(***************************************************************************)
(* Bounds of the model.                                                    *)
(***************************************************************************)
\* LoggerManager instances in one process
MaxMgrs == 2
\* setup_logging calls in one process
MaxSetups == 2
\* files found in the log folder when the process starts
MaxInitFiles == 2

(***************************************************************************)
(* Text.                                                                   *)
(***************************************************************************)
DigitChars == <<"0", "1", "2", "3", "4", "5", "6", "7", "8", "9">>

IsDigit(c) == \E i \in 1..10 : DigitChars[i] = c

DigitVal(c) == (CHOOSE i \in 1..10 : DigitChars[i] = c) - 1

AllDigits(s) == \A i \in 1..Len(s) : IsDigit(s[i])

\* int(s) of a non-empty string of decimal digits
RECURSIVE ToInt(_)
ToInt(s) ==
    IF Len(s) = 0 THEN 0
    ELSE 10 * ToInt(SubSeq(s, 1, Len(s) - 1)) + DigitVal(s[Len(s)])

\* n as decimal digits, zero-padded to at least w characters (%02d, %04d)
RECURSIVE Pad(_, _)
Pad(n, w) ==
    IF w <= 1 /\ n < 10 THEN <<DigitChars[n + 1]>>
    ELSE Pad(n \div 10, w - 1) \o <<DigitChars[(n % 10) + 1]>>

\* Python's s[a:b] for a negative start a and a negative stop b
PySlice(s, a, b) ==
    LET lo == IF Len(s) + a < 0 THEN 0 ELSE Len(s) + a
        hi == IF Len(s) + b < 0 THEN 0 ELSE Len(s) + b
    IN  SubSeq(s, lo + 1, hi)

EndsWith(s, suffix) ==
    /\ Len(s) >= Len(suffix)
    /\ SubSeq(s, Len(s) - Len(suffix) + 1, Len(s)) = suffix

\* s.split(sep) for a one-character separator
RECURSIVE Split(_, _)
Split(s, sep) ==
    IF \A i \in 1..Len(s) : s[i] # sep THEN <<s>>
    ELSE LET k == CHOOSE i \in 1..Len(s) :
                      s[i] = sep /\ \A j \in 1..(i - 1) : s[j] # sep
         IN  <<SubSeq(s, 1, k - 1)>> \o Split(SubSeq(s, k + 1, Len(s)), sep)

\* needle in haystack, for two strings
IsSubstring(needle, haystack) ==
    \E i \in 0..(Len(haystack) - Len(needle)) :
        SubSeq(haystack, i + 1, i + Len(needle)) = needle

\* sep.join(parts)
RECURSIVE Join(_, _)
Join(parts, sep) ==
    IF Len(parts) = 0 THEN <<>>
    ELSE IF Len(parts) = 1 THEN parts[1]
    ELSE parts[1] \o sep \o Join(Tail(parts), sep)

(***************************************************************************)
(* datetime: the proleptic Gregorian calendar of Python's datetime module. *)
(***************************************************************************)
is_leap(y) == y % 4 = 0 /\ (y % 100 # 0 \/ y % 400 = 0)

DAYS_IN_MONTH == <<31, 28, 31, 30, 31, 30, 31, 31, 30, 31, 30, 31>>

DAYS_BEFORE_MONTH == <<0, 31, 59, 90, 120, 151, 181, 212, 243, 273, 304, 334>>

days_in_month(y, m) ==
    IF m = 2 /\ is_leap(y) THEN 29 ELSE DAYS_IN_MONTH[m]

days_before_year(y) ==
    (y - 1) * 365 + (y - 1) \div 4 - (y - 1) \div 100 + (y - 1) \div 400

days_before_month(y, m) ==
    DAYS_BEFORE_MONTH[m] + (IF m > 2 /\ is_leap(y) THEN 1 ELSE 0)

ymd2ord(y, m, d) == days_before_year(y) + days_before_month(y, m) + d

ord2ymd(ordinal) ==
    LET n0 == ordinal - 1
        n400 == n0 \div 146097
        r400 == n0 % 146097
        n100 == r400 \div 36524
        r100 == r400 % 36524
        n4 == r100 \div 1461
        r4 == r100 % 1461
        n1 == r4 \div 365
        n == r4 % 365
        year == n400 * 400 + 1 + n100 * 100 + n4 * 4 + n1
        leapyear == n1 = 3 /\ (n4 # 24 \/ n100 = 3)
        month0 == (n + 50) \div 32
        preceding0 == DAYS_BEFORE_MONTH[month0]
                        + (IF month0 > 2 /\ leapyear THEN 1 ELSE 0)
        back == preceding0 > n
        month == IF back THEN month0 - 1 ELSE month0
        preceding ==
            IF back
            THEN preceding0 - (DAYS_IN_MONTH[month]
                                 + (IF month = 2 /\ leapyear THEN 1 ELSE 0))
            ELSE preceding0
    IN  IF n1 = 4 \/ n100 = 4
        THEN [year |-> year - 1, month |-> 12, day |-> 31]
        ELSE [year |-> year, month |-> month, day |-> n - preceding + 1]

DateTime(y, mo, d, h, mi, s, us) ==
    [year |-> y, month |-> mo, day |-> d,
     hour |-> h, minute |-> mi, second |-> s, microsecond |-> us]

\* dt - timedelta(days=days): only the date part moves
datetime_sub_days(dt, days) ==
    LET ymd == ord2ymd(ymd2ord(dt.year, dt.month, dt.day) - days)
    IN  DateTime(ymd.year, ymd.month, ymd.day,
                 dt.hour, dt.minute, dt.second, dt.microsecond)

datetime_tuple(dt) ==
    <<dt.year, dt.month, dt.day, dt.hour, dt.minute, dt.second, dt.microsecond>>

\* a < b for two sequences of integers of one length, as Python orders tuples
RECURSIVE TupleLT(_, _)
TupleLT(a, b) ==
    IF Len(a) = 0 THEN FALSE
    ELSE IF a[1] # b[1] THEN a[1] < b[1]
    ELSE TupleLT(Tail(a), Tail(b))

\* a < b for two naive datetimes
datetime_lt(a, b) == TupleLT(datetime_tuple(a), datetime_tuple(b))

Underscore == <<"_">>

\* dt.strftime("%Y_%m_%d_%H_%M_%S")
strftime_full(dt) ==
    Pad(dt.year, 4) \o Underscore \o Pad(dt.month, 2) \o Underscore
        \o Pad(dt.day, 2) \o Underscore \o Pad(dt.hour, 2) \o Underscore
        \o Pad(dt.minute, 2) \o Underscore \o Pad(dt.second, 2)

ValueError == [error |-> "ValueError"]

\* one numeric directive of strptime: its digits, then its range
StrptimeField(part, minLen, maxLen, lo, hi) ==
    /\ Len(part) >= minLen
    /\ Len(part) <= maxLen
    /\ AllDigits(part)
    /\ ToInt(part) >= lo
    /\ ToInt(part) <= hi

\* datetime.strptime(s, "%Y_%m_%d_%H_%M_%S"): the datetime, or ValueError
strptime_full(s) ==
    LET p == Split(s, "_")
    IN  IF /\ Len(p) = 6
           /\ StrptimeField(p[1], 4, 4, 1, 9999)
           /\ StrptimeField(p[2], 1, 2, 1, 12)
           /\ StrptimeField(p[3], 1, 2, 1, 31)
           /\ StrptimeField(p[4], 1, 2, 0, 23)
           /\ StrptimeField(p[5], 1, 2, 0, 59)
           /\ StrptimeField(p[6], 1, 2, 0, 59)
           /\ ToInt(p[3]) <= days_in_month(ToInt(p[1]), ToInt(p[2]))
        THEN DateTime(ToInt(p[1]), ToInt(p[2]), ToInt(p[3]),
                      ToInt(p[4]), ToInt(p[5]), ToInt(p[6]), 0)
        ELSE ValueError

(***************************************************************************)
(* check_positive_float, the type of --request-time-limit.                 *)
(* A float is the fraction num / den, den a power of ten.                  *)
(***************************************************************************)
\* digits after the decimal point in the texts tried
MaxFracDigits == 2
\* the largest whole part in the texts tried
MaxWhole == 2

RECURSIVE Pow10(_)
Pow10(k) == IF k <= 0 THEN 1 ELSE 10 * Pow10(k - 1)

IsSign(c) == c = "-" \/ c = "+"

\* float(text) for a signed decimal: the fraction, or ok = FALSE for ValueError
float(text) ==
    LET signed == Len(text) > 0 /\ IsSign(text[1])
        body == IF signed THEN Tail(text) ELSE text
        parts == Split(body, ".")
        whole == parts[1]
        frac == IF Len(parts) = 2 THEN parts[2] ELSE <<>>
    IN  IF /\ Len(parts) <= 2
           /\ AllDigits(whole) /\ AllDigits(frac)
           /\ Len(whole) + Len(frac) > 0
        THEN [ok |-> TRUE,
              num |-> (IF signed /\ text[1] = "-" THEN -1 ELSE 1)
                        * ToInt(whole \o frac),
              den |-> Pow10(Len(frac))]
        ELSE [ok |-> FALSE, num |-> 0, den |-> 1]

Checked(outcome, num, den) == [outcome |-> outcome, num |-> num, den |-> den]

NotChecked == Checked("not called", 0, 1)

\* a slip in the comparison: fvalue <= 1
check_positive_float_above_one(value) ==
    LET fvalue == float(value)
    IN  IF ~fvalue.ok THEN Checked("ValueError", 0, 1)
        ELSE IF fvalue.num <= fvalue.den THEN Checked("ArgumentTypeError", 0, 1)
        ELSE Checked("return", fvalue.num, fvalue.den)

\* check_positive_float(value)
check_positive_float(value) ==
    LET fvalue == float(value)
    IN  IF ~fvalue.ok THEN Checked("ValueError", 0, 1)
        ELSE IF fvalue.num < fvalue.den THEN Checked("ArgumentTypeError", 0, 1)
        ELSE Checked("return", fvalue.num, fvalue.den)

\* the command-line text of a decimal: its sign, whole part and fraction digits
Argument(negative, whole, frac) ==
    [text |-> (IF negative THEN <<"-">> ELSE <<>>) \o Pad(whole, 1)
                \o (IF Len(frac) = 0 THEN <<>> ELSE <<".">> \o frac),
     numeric |-> TRUE, negative |-> negative, whole |-> whole, frac |-> frac]

NotANumber(text) ==
    [text |-> text, numeric |-> FALSE, negative |-> FALSE, whole |-> 0,
     frac |-> <<>>]

NoArgument == NotANumber(<<>>)

FracTexts ==
    UNION {[1..k -> {DigitChars[i] : i \in 1..10}] : k \in 0..MaxFracDigits}

InitArgs ==
    /\ \/ \E negative \in BOOLEAN, whole \in 0..MaxWhole, frac \in FracTexts :
            argv = Argument(negative, whole, frac)
       \/ argv = NotANumber(<<"a", "b", "c">>)
       \/ argv = NotANumber(<<"1", ".", "2", ".", "3">>)
    /\ checked = NotChecked

\* no --request-time-limit on the command line
ArgsIdle == argv = NoArgument /\ checked = NotChecked

\* argparse applies the type to the text given on the command line
CheckArgument ==
    /\ checked = NotChecked
    /\ checked' = check_positive_float(argv.text)
    /\ UNCHANGED <<argv, clock, files, handlers, mgrs, setups, lastOp, configVars>>

(***************************************************************************)
(* JSON: a file's text as a sequence of tokens, and json.load on it.       *)
(* A token is [t, s]: t its kind and s the characters of a string or of a  *)
(* number. A value is [type, s, items]: items the values of an array, or   *)
(* the members [k, v] of an object in the order of their first appearance. *)
(***************************************************************************)
Punct(c) == [t |-> c, s |-> <<>>]

StringToken(chars) == [t |-> "string", s |-> chars]

NumberToken(chars) == [t |-> "number", s |-> chars]

\* text that is no JSON token at all, such as a bare word
BadToken == [t |-> "bad", s |-> <<>>]

JString(chars) == [type |-> "string", s |-> chars, items |-> <<>>]

JNumber(chars) == [type |-> "number", s |-> chars, items |-> <<>>]

JLiteral(name) == [type |-> name, s |-> <<>>, items |-> <<>>]

JArray(items) == [type |-> "array", s |-> <<>>, items |-> items]

JObject(members) == [type |-> "object", s |-> <<>>, items |-> members]

NoValue == JLiteral("none")

\* d[k] = v on a dict: a repeated key keeps its place and takes the new value
DictSet(members, k, v) ==
    IF \E i \in 1..Len(members) : members[i].k = k
    THEN [i \in 1..Len(members) |->
             IF members[i].k = k THEN [k |-> k, v |-> v] ELSE members[i]]
    ELSE Append(members, [k |-> k, v |-> v])

Parsed(value, next) == [ok |-> TRUE, value |-> value, next |-> next]

JSONDecodeError == [ok |-> FALSE, value |-> NoValue, next |-> 0]

TokenAt(toks, i) == IF i <= Len(toks) THEN toks[i].t ELSE "end"

\* the decoder: the value that starts at token i, and the place after it
RECURSIVE ParseValue(_, _)
RECURSIVE ParseItems(_, _, _)
RECURSIVE ParseMembers(_, _, _)
ParseValue(toks, i) ==
    LET t == TokenAt(toks, i)
    IN  IF t = "string" THEN Parsed(JString(toks[i].s), i + 1)
        ELSE IF t = "number" THEN Parsed(JNumber(toks[i].s), i + 1)
        ELSE IF t \in {"true", "false", "null"} THEN Parsed(JLiteral(t), i + 1)
        ELSE IF t = "["
        THEN IF TokenAt(toks, i + 1) = "]" THEN Parsed(JArray(<<>>), i + 2)
             ELSE ParseItems(toks, i + 1, <<>>)
        ELSE IF t = "{"
        THEN IF TokenAt(toks, i + 1) = "}" THEN Parsed(JObject(<<>>), i + 2)
             ELSE ParseMembers(toks, i + 1, <<>>)
        ELSE JSONDecodeError

ParseItems(toks, i, acc) ==
    LET item == ParseValue(toks, i)
    IN  IF ~item.ok THEN JSONDecodeError
        ELSE IF TokenAt(toks, item.next) = ","
        THEN ParseItems(toks, item.next + 1, Append(acc, item.value))
        ELSE IF TokenAt(toks, item.next) = "]"
        THEN Parsed(JArray(Append(acc, item.value)), item.next + 1)
        ELSE JSONDecodeError

ParseMembers(toks, i, acc) ==
    IF TokenAt(toks, i) # "string" \/ TokenAt(toks, i + 1) # ":"
    THEN JSONDecodeError
    ELSE LET item == ParseValue(toks, i + 2)
         IN  IF ~item.ok THEN JSONDecodeError
             ELSE IF TokenAt(toks, item.next) = ","
             THEN ParseMembers(toks, item.next + 1,
                               DictSet(acc, toks[i].s, item.value))
             ELSE IF TokenAt(toks, item.next) = "}"
             THEN Parsed(JObject(DictSet(acc, toks[i].s, item.value)),
                         item.next + 1)
             ELSE JSONDecodeError

\* a slip: the first value of the text is taken and what follows it is ignored
json_load_first_value(toks) == ParseValue(toks, 1)

\* json.load: one value, then the end of the text
json_load(toks) ==
    LET doc == ParseValue(toks, 1)
    IN  IF doc.ok /\ doc.next = Len(toks) + 1 THEN doc ELSE JSONDecodeError

\* the text json.dump writes for a value
RECURSIVE Serialize(_)
RECURSIVE SerializeItems(_)
RECURSIVE SerializeMembers(_)
Serialize(v) ==
    IF v.type = "string" THEN <<StringToken(v.s)>>
    ELSE IF v.type = "number" THEN <<NumberToken(v.s)>>
    ELSE IF v.type = "array"
    THEN <<Punct("[")>> \o SerializeItems(v.items) \o <<Punct("]")>>
    ELSE IF v.type = "object"
    THEN <<Punct("{")>> \o SerializeMembers(v.items) \o <<Punct("}")>>
    ELSE <<Punct(v.type)>>

SerializeItems(items) ==
    IF Len(items) = 0 THEN <<>>
    ELSE IF Len(items) = 1 THEN Serialize(items[1])
    ELSE Serialize(items[1]) \o <<Punct(",")>> \o SerializeItems(Tail(items))

SerializeMembers(members) ==
    IF Len(members) = 0 THEN <<>>
    ELSE <<StringToken(members[1].k), Punct(":")>> \o Serialize(members[1].v)
            \o (IF Len(members) = 1 THEN <<>>
                ELSE <<Punct(",")>> \o SerializeMembers(Tail(members)))

(***************************************************************************)
(* load_and_validate_config.                                               *)
(***************************************************************************)
K_boards == <<"b", "o", "a", "r", "d", "s">>

K_exclude_boards == <<"e", "x", "c", "l", "u", "d", "e", "_">> \o K_boards

K_request_time_limit ==
    <<"r", "e", "q", "u", "e", "s", "t", "_", "t", "i", "m", "e", "_",
      "l", "i", "m", "i", "t">>

K_output_path == <<"o", "u", "t", "p", "u", "t", "_", "p", "a", "t", "h">>

K_save_log == <<"s", "a", "v", "e", "_", "l", "o", "g">>

K_clean_log == <<"c", "l", "e", "a", "n", "_", "l", "o", "g">>

\* a slip: the last entry of the list is missing
required_fields_short ==
    <<K_boards, K_exclude_boards, K_request_time_limit, K_output_path, K_save_log>>

required_fields ==
    <<K_boards, K_exclude_boards, K_request_time_limit, K_output_path, K_save_log, K_clean_log>>

\* the outcome of a call: what it raised, or "return" and the value
Raised(exception, message, detail) ==
    [outcome |-> exception, message |-> message, detail |-> detail,
     value |-> NoValue]

Returned(value) ==
    [outcome |-> "return", message |-> "", detail |-> <<>>, value |-> value]

NotLoaded == Raised("not called", "", <<>>)

\* whether `field in config` can be evaluated: a number, a boolean or None is
\* not iterable and the test raises TypeError
Iterable(config) == config.type \in {"object", "array", "string"}

\* field in config: a key of a dict, an element of a list, a part of a str
Contains(config, field) ==
    IF config.type = "object"
    THEN \E i \in 1..Len(config.items) : config.items[i].k = field
    ELSE IF config.type = "array"
    THEN \E i \in 1..Len(config.items) :
            config.items[i].type = "string" /\ config.items[i].s = field
    ELSE IsSubstring(field, config.s)

SelectMissing(config) ==
    SelectSeq(required_fields, LAMBDA field : ~Contains(config, field))

\* the dict with its required keys only
RequiredOnly(config) ==
    JObject(SelectSeq(config.items,
                      LAMBDA mem : \E i \in 1..Len(required_fields) :
                                      required_fields[i] = mem.k))

\* a slip: the loader builds its result from the required keys
load_and_validate_config_required_only(file) ==
    IF ~file.exists
    THEN Raised("FileNotFoundError", "Config file not found at ", <<>>)
    ELSE LET doc == json_load(file.text)
         IN  IF ~doc.ok THEN Raised("ValueError", "Invalid JSON format in ", <<>>)
             ELSE IF ~Iterable(doc.value)
             THEN Raised("TypeError", "argument is not iterable", <<>>)
             ELSE IF SelectMissing(doc.value) # <<>>
             THEN Raised("ValueError", "Missing required fields in config: ",
                         Join(SelectMissing(doc.value), <<",", " ">>))
             ELSE Returned(IF doc.value.type = "object"
                           THEN RequiredOnly(doc.value) ELSE doc.value)

\* load_and_validate_config(config_path), file being what the path holds
load_and_validate_config(file) ==
    IF ~file.exists
    THEN Raised("FileNotFoundError", "Config file not found at ", <<>>)
    ELSE LET doc == json_load(file.text)
         IN  IF ~doc.ok THEN Raised("ValueError", "Invalid JSON format in ", <<>>)
             ELSE LET config == doc.value
                  IN  IF ~Iterable(config)
                      THEN Raised("TypeError", "argument is not iterable", <<>>)
                      ELSE LET missing_fields == SelectMissing(config)
                           IN  IF missing_fields # <<>>
                               THEN Raised("ValueError",
                                           "Missing required fields in config: ",
                                           Join(missing_fields, <<",", " ">>))
                               ELSE Returned(config)

(***************************************************************************)
(* The files load_and_validate_config is given. A file is                  *)
(* [exists, text, doc, valid]: doc is the JSON value the text was written  *)
(* from, and valid tells whether the text still is that value's text.      *)
(***************************************************************************)
K_comment == <<"c", "o", "m", "m", "e", "n", "t">>

\* the keys a config file may hold: the six required ones and one more
ConfigKeys ==
    <<K_boards, K_exclude_boards, K_comment, K_request_time_limit, K_output_path,
      K_save_log, K_clean_log>>

\* the value the documented config format stores under a key
TypedValue(key) ==
    IF key = K_boards THEN JArray(<<JString(<<"a">>), JString(<<"g">>)>>)
    ELSE IF key = K_exclude_boards THEN JLiteral("false")
    ELSE IF key = K_request_time_limit THEN JNumber(<<"2">>)
    ELSE IF key = K_output_path THEN JString(<<"o", "u", "t">>)
    ELSE IF key = K_comment THEN JString(<<>>)
    ELSE JLiteral("true")

\* values of other types and ranges: boards not a list, a time limit below 1
OddValue(key) ==
    IF key = K_boards THEN JString(<<"a">>)
    ELSE IF key = K_exclude_boards THEN JLiteral("null")
    ELSE IF key = K_request_time_limit THEN JNumber(<<"0">>)
    ELSE IF key = K_output_path THEN JNumber(<<"7">>)
    ELSE IF key = K_comment THEN JArray(<<JLiteral("null")>>)
    ELSE IF key = K_save_log THEN JString(<<"y", "e", "s">>)
    ELSE JArray(<<>>)

RECURSIVE MembersOf(_, _, _)
MembersOf(keys, present, odd) ==
    IF Len(keys) = 0 THEN <<>>
    ELSE (IF 1 \in present
          THEN <<[k |-> keys[1],
                  v |-> IF odd THEN OddValue(keys[1]) ELSE TypedValue(keys[1])]>>
          ELSE <<>>)
            \o MembersOf(Tail(keys), {i - 1 : i \in present \ {1}}, odd)

ObjectDocs(odd) ==
    {JObject(MembersOf(ConfigKeys, present, odd)) :
        present \in SUBSET (1..Len(ConfigKeys))}

RECURSIVE StringsOf(_, _)
StringsOf(names, present) ==
    IF Len(names) = 0 THEN <<>>
    ELSE (IF 1 \in present THEN <<JString(names[1])>> ELSE <<>>)
            \o StringsOf(Tail(names), {i - 1 : i \in present \ {1}})

\* arrays of the required keys' names
ArrayDocs ==
    {JArray(StringsOf(required_fields, present)) :
        present \in SUBSET (1..Len(required_fields))}

\* strings: empty, one name, and every name but "boards", space-separated
StringDocs ==
    {JString(<<>>), JString(K_boards),
     JString(Join(Tail(required_fields), <<" ">>))}

ScalarDocs ==
    {JNumber(<<"5">>), JLiteral("true"), JLiteral("false"), JLiteral("null")}

Breakages == {"truncated", "extra data", "no colon", "trailing comma", "bad token"}

FirstColon(text) ==
    CHOOSE i \in 1..Len(text) :
        text[i].t = ":" /\ \A j \in 1..(i - 1) : text[j].t # ":"

\* the text with one thing wrong; the text itself where that cannot be done
Break(how, text) ==
    IF Len(text) = 0 THEN text
    ELSE IF how = "truncated" THEN SubSeq(text, 1, Len(text) - 1)
    ELSE IF how = "extra data" THEN Append(text, StringToken(<<"x">>))
    ELSE IF how = "no colon"
    THEN IF \E i \in 1..Len(text) : text[i].t = ":"
         THEN SubSeq(text, 1, FirstColon(text) - 1)
                \o SubSeq(text, FirstColon(text) + 1, Len(text))
         ELSE text
    ELSE IF how = "trailing comma"
    THEN SubSeq(text, 1, Len(text) - 1) \o <<Punct(","), text[Len(text)]>>
    ELSE <<BadToken>> \o Tail(text)

Written(doc) ==
    [exists |-> TRUE, text |-> Serialize(doc), doc |-> doc, valid |-> TRUE]

Broken(how, doc) ==
    [exists |-> TRUE, text |-> Break(how, Serialize(doc)), doc |-> doc,
     valid |-> FALSE]

NoFile == [exists |-> FALSE, text |-> <<>>, doc |-> NoValue, valid |-> FALSE]

EmptyFile == [exists |-> TRUE, text |-> <<>>, doc |-> NoValue, valid |-> FALSE]

InitConfig ==
    /\ \/ fs = NoFile
       \/ fs = EmptyFile
       \/ \E odd \in BOOLEAN : \E doc \in ObjectDocs(odd) : fs = Written(doc)
       \/ \E doc \in ArrayDocs \cup StringDocs \cup ScalarDocs : fs = Written(doc)
       \/ \E how \in Breakages : \E doc \in ObjectDocs(FALSE) :
            /\ Break(how, Serialize(doc)) # Serialize(doc)
            /\ fs = Broken(how, doc)
    /\ loaded = NotLoaded

\* no config file is loaded
ConfigIdle == fs = NoFile /\ loaded = NotLoaded

\* one call of load_and_validate_config on the path
LoadConfig ==
    /\ loaded = NotLoaded
    /\ loaded' = load_and_validate_config(fs)
    /\ UNCHANGED <<fs, clock, files, handlers, mgrs, setups, lastOp, argVars>>

(***************************************************************************)
(* LoggerManager.                                                          *)
(***************************************************************************)
None == "None"

\* logging.getLogger("4chan_requester"): one logger object per process
LoggerName == "4chan_requester"

InfoLogPrefix == <<"i", "n", "f", "o", "_", "l", "o", "g">>

DebugLogPrefix == <<"d", "e", "b", "u", "g", "_", "l", "o", "g">>

DotLog == <<".", "l", "o", "g">>

\* the literal "yyyy_mm_dd_hh_mm_ss.log" whose length cleanup_old_logs slices by
SlicePattern ==
    <<"y", "y", "y", "y", "_", "m", "m", "_", "d", "d", "_",
      "h", "h", "_", "m", "m", "_", "s", "s">> \o DotLog

DefaultDaysToKeep == 3

Mgrs == 1..MaxMgrs

LogLevels == {"INFO", "DEBUG"}

\* the instants utcnow() is observed at: two in one second, one in the next
Times ==
    {DateTime(2024, 3, 2, 12, 0, 0, 0),
     DateTime(2024, 3, 2, 12, 0, 0, 500000),
     DateTime(2024, 3, 2, 12, 0, 1, 0)}

StartTime == DateTime(2024, 3, 2, 12, 0, 0, 0)

\* the retention windows cleanup_old_logs is called with
DaysChoices == {0, DefaultDaysToKeep, 4}

\* the timestamps of the log files earlier runs left behind
OldStamps ==
    {DateTime(2024, 2, 27, 12, 0, 0, 0),
     DateTime(2024, 2, 28, 11, 59, 59, 0),
     DateTime(2024, 2, 28, 12, 0, 0, 0),
     DateTime(2024, 2, 29, 12, 0, 0, 0)}

NotesLog == <<"n", "o", "t", "e", "s">> \o DotLog

\* a *.log file whose trailing 19 characters name no calendar day
BadDayLog ==
    InfoLogPrefix
        \o <<"2", "0", "2", "3", "_", "0", "2", "_", "2", "9", "_",
             "1", "2", "_", "0", "0", "_", "0", "0">> \o DotLog

\* an old timestamped file that is not a *.log file
OldTxt ==
    InfoLogPrefix \o strftime_full(DateTime(2024, 2, 27, 12, 0, 0, 0))
        \o <<".", "t", "x", "t">>

\* a slip in the format string: "%Y_%d_%m_%H_%M_%S"
get_full_time_day_first(now) ==
    Pad(now.year, 4) \o Underscore \o Pad(now.day, 2) \o Underscore
        \o Pad(now.month, 2) \o Underscore \o Pad(now.hour, 2) \o Underscore
        \o Pad(now.minute, 2) \o Underscore \o Pad(now.second, 2)

\* LoggerManager._get_full_time, with utcnow() = now
get_full_time(now) == strftime_full(now)

\* the file names of _setup_save_logging
infologpath(now) == InfoLogPrefix \o get_full_time(now) \o DotLog

debuglogpath(now) == DebugLogPrefix \o get_full_time(now) \o DotLog

InitCandidates ==
    {infologpath(DateTime(2024, 2, 27, 12, 0, 0, 0)),
     infologpath(DateTime(2024, 2, 28, 11, 59, 59, 0)),
     debuglogpath(DateTime(2024, 2, 28, 12, 0, 0, 0)),
     debuglogpath(DateTime(2024, 2, 29, 12, 0, 0, 0)),
     NotesLog, BadDayLog, OldTxt}

StreamHandler(level) == [kind |-> "StreamHandler", level |-> level, file |-> <<>>]

FileHandler(path, level) == [kind |-> "FileHandler", level |-> level, file |-> path]

\* what lastOp keeps of an operation: its name, the manager it ran on, what it
\* returned or raised, and for cleanup_old_logs its days_to_keep, the utcnow() it
\* read and the files it removed
Op(name, m, result, days, now, removed) ==
    [op |-> name, mgr |-> m, result |-> result, days |-> days, now |-> now,
     removed |-> removed]

NoOp == Op("none", 0, None, 0, StartTime, {})

Unconstructed == [constructed |-> FALSE, save_log |-> FALSE, logger |-> None]

\* a process starts with no manager, no handler, and the files earlier runs left
InitLogger(candidates) ==
    /\ clock = StartTime
    /\ files \in {S \in SUBSET candidates : Cardinality(S) <= MaxInitFiles}
    /\ handlers = <<>>
    /\ mgrs = [m \in Mgrs |-> Unconstructed]
    /\ setups = <<>>
    /\ lastOp = NoOp

\* no LoggerManager is built
LoggerIdle ==
    /\ clock = StartTime /\ files = {} /\ handlers = <<>>
    /\ mgrs = [m \in Mgrs |-> Unconstructed]
    /\ setups = <<>> /\ lastOp = NoOp

\* LoggerManager.__init__: mkdir leaves the files of the folder alone
LoggerManager_init(m, save_log) ==
    /\ ~mgrs[m].constructed
    /\ mgrs' = [mgrs EXCEPT ![m] =
                   [constructed |-> TRUE, save_log |-> save_log, logger |-> None]]
    /\ lastOp' = Op("init", m, None, 0, StartTime, {})
    /\ UNCHANGED <<clock, files, handlers, setups, configVars, argVars>>

\* a slip: the debug handler is built and never added to the logger
setup_save_logging_info_only(t1, t2) == <<FileHandler(infologpath(t1), "INFO")>>

\* LoggerManager._setup_save_logging: utcnow() is read once per file
setup_save_logging(t1, t2) ==
    <<FileHandler(infologpath(t1), "INFO"), FileHandler(debuglogpath(t2), "DEBUG")>>

\* LoggerManager.setup_logging; t2 is the clock at the second file's naming
setup_logging(m, stream_log_level, t2) ==
    /\ mgrs[m].constructed
    /\ Len(setups) < MaxSetups
    /\ t2 = clock \/ datetime_lt(clock, t2)
    /\ LET added == IF mgrs[m].save_log THEN setup_save_logging(clock, t2) ELSE <<>>
       IN  /\ handlers' = handlers \o <<StreamHandler(stream_log_level)>> \o added
           /\ files' = files \cup {added[i].file : i \in 1..Len(added)}
           /\ clock' = IF mgrs[m].save_log THEN t2 ELSE clock
    /\ mgrs' = [mgrs EXCEPT ![m].logger = LoggerName]
    /\ setups' = Append(setups, [mgr |-> m, save_log |-> mgrs[m].save_log])
    /\ lastOp' = Op("setup_logging", m, None, 0, StartTime, {})
    /\ UNCHANGED <<configVars, argVars>>

\* self.logfolder.glob("*.log")
glob_log(folder) == {f \in folder : EndsWith(f, DotLog)}

\* the date cleanup_old_logs reads from a file name, or ValueError
file_date_of(log_file) ==
    LET file_date_str == PySlice(log_file, 0 - Len(SlicePattern), 0 - Len(DotLog))
    IN  strptime_full(file_date_str)

\* a slip in the comparison: file_date <= threshold_date
cleanup_visit_at_threshold(log_file, file_date, folder, threshold_date) ==
    IF ~datetime_lt(threshold_date, file_date) THEN folder \ {log_file} ELSE folder

\* one pass of the loop body: remove the file if it is older than the threshold
cleanup_visit(log_file, file_date, folder, threshold_date) ==
    IF datetime_lt(file_date, threshold_date) THEN folder \ {log_file} ELSE folder

\* the files the loop body removes when it visits every file of `visited`
RECURSIVE cleanup_visit_all(_, _, _, _)
cleanup_visit_all(visited, file_date, folder, threshold_date) ==
    IF visited = {} THEN folder
    ELSE LET log_file == CHOOSE f \in visited : TRUE
         IN  cleanup_visit_all(visited \ {log_file}, file_date,
                               cleanup_visit(log_file, file_date[log_file],
                                             folder, threshold_date),
                               threshold_date)

\* the loop of cleanup_old_logs. glob yields the files in an order the file
\* system decides, and strptime's ValueError ends the call at the first file
\* it cannot parse: the call either visits every file, or raises after
\* visiting any set of the parseable files. file_date[f] is file_date_of(f).
\* The value is the set of ways the call can end.
cleanup_loop(matched, file_date, folder, threshold_date) ==
    LET unparseable == {f \in matched : file_date[f] = ValueError}
    IN  IF unparseable = {}
        THEN {[files |-> cleanup_visit_all(matched, file_date, folder, threshold_date),
               result |-> None]}
        ELSE {[files |-> cleanup_visit_all(visited, file_date, folder, threshold_date),
               result |-> "ValueError"] : visited \in SUBSET (matched \ unparseable)}

\* LoggerManager.cleanup_old_logs
cleanup_old_logs(m, days_to_keep) ==
    /\ mgrs[m].constructed
    /\ LET now == clock
           threshold_date == datetime_sub_days(now, days_to_keep)
           file_date == [f \in glob_log(files) |-> file_date_of(f)]
       IN  \E done \in cleanup_loop(glob_log(files), file_date, files, threshold_date) :
             /\ files' = done.files
             /\ lastOp' = Op("cleanup_old_logs", m, done.result, days_to_keep,
                             now, files \ done.files)
    /\ UNCHANGED <<clock, handlers, mgrs, setups, configVars, argVars>>

\* a slip: the None check is missing and the field is returned as it is
get_logger_unchecked(m) ==
    /\ mgrs[m].constructed
    /\ lastOp' = Op("get_logger", m, mgrs[m].logger, 0, StartTime, {})
    /\ UNCHANGED <<clock, files, handlers, mgrs, setups, configVars, argVars>>

\* LoggerManager.get_logger
get_logger(m) ==
    /\ mgrs[m].constructed
    /\ lastOp' = Op("get_logger", m,
                    IF mgrs[m].logger = None THEN "RuntimeError" ELSE mgrs[m].logger,
                    0, StartTime, {})
    /\ UNCHANGED <<clock, files, handlers, mgrs, setups, configVars, argVars>>

\* time passes between two operations
Tick(t) ==
    /\ datetime_lt(clock, t)
    /\ clock' = t
    /\ UNCHANGED <<files, handlers, mgrs, setups, lastOp, configVars, argVars>>

\* the logger's lifecycle: every manager, every level, the default retention
NextLifecycle ==
    \/ \E m \in Mgrs, save_log \in BOOLEAN : LoggerManager_init(m, save_log)
    \/ \E m \in Mgrs, lvl \in LogLevels, t2 \in Times : setup_logging(m, lvl, t2)
    \/ \E m \in Mgrs : cleanup_old_logs(m, DefaultDaysToKeep)
    \/ \E m \in Mgrs : get_logger(m)
    \/ \E t \in Times : Tick(t)

InitLifecycle ==
    /\ InitLogger({infologpath(DateTime(2024, 2, 27, 12, 0, 0, 0)), NotesLog})
    /\ ConfigIdle
    /\ ArgsIdle

SpecLogger == InitLifecycle /\ [][NextLifecycle]_vars

\* retention: one manager, every retention window, every kind of file left behind
NextRetention ==
    \/ \E save_log \in BOOLEAN : LoggerManager_init(1, save_log)
    \/ \E t2 \in Times : setup_logging(1, "INFO", t2)
    \/ \E d \in DaysChoices : cleanup_old_logs(1, d)
    \/ get_logger(1)
    \/ \E t \in Times : Tick(t)

InitRetention == InitLogger(InitCandidates) /\ ConfigIdle /\ ArgsIdle

SpecCleanup == InitRetention /\ [][NextRetention]_vars

\* the config loader, called once on each file
NextConfig == LoadConfig

InitLoader == InitConfig /\ LoggerIdle /\ ArgsIdle

SpecConfig == InitLoader /\ [][NextConfig]_vars

\* the validator, called once on each text
NextArgs == CheckArgument

InitValidator == InitArgs /\ LoggerIdle /\ ConfigIdle

SpecArgs == InitValidator /\ [][NextArgs]_vars

(***************************************************************************)
(* What the claims say of a log file's name, read off the name character   *)
(* by character and counted in days, seconds and microseconds.             *)
(***************************************************************************)
IsLogName(f) == EndsWith(f, DotLog)

\* the 19 characters before ".log"
StampText(f) == SubSeq(f, Len(f) - 22, Len(f) - 4)

HasStampShape(f) ==
    /\ Len(f) >= 23
    /\ \A i \in 1..19 :
        IF i \in {5, 8, 11, 14, 17} THEN StampText(f)[i] = "_"
        ELSE IsDigit(StampText(f)[i])

StampYear(f) == ToInt(SubSeq(StampText(f), 1, 4))
StampMonth(f) == ToInt(SubSeq(StampText(f), 6, 7))
StampDay(f) == ToInt(SubSeq(StampText(f), 9, 10))
StampHour(f) == ToInt(SubSeq(StampText(f), 12, 13))
StampMinute(f) == ToInt(SubSeq(StampText(f), 15, 16))
StampSecond(f) == ToInt(SubSeq(StampText(f), 18, 19))

LeapYear(y) == (y % 4 = 0 /\ y % 100 # 0) \/ y % 400 = 0

MonthLength(y, m) ==
    IF m = 2 THEN (IF LeapYear(y) THEN 29 ELSE 28)
    ELSE IF m \in {4, 6, 9, 11} THEN 30 ELSE 31

\* the name ends in a valid YYYY_MM_DD_HH_MM_SS timestamp, then ".log"
Conforms(f) ==
    /\ IsLogName(f)
    /\ HasStampShape(f)
    /\ StampYear(f) >= 1
    /\ StampMonth(f) \in 1..12
    /\ StampDay(f) \in 1..MonthLength(StampYear(f), StampMonth(f))
    /\ StampHour(f) \in 0..23
    /\ StampMinute(f) \in 0..59
    /\ StampSecond(f) \in 0..59

\* days from 1 January 2000 to 1 January of y (a year from 2000 on)
RECURSIVE YearStart(_)
YearStart(y) ==
    IF y <= 2000 THEN 0
    ELSE YearStart(y - 1) + (IF LeapYear(y - 1) THEN 366 ELSE 365)

\* days from 1 January of y to the first of month m
RECURSIVE MonthStart(_, _)
MonthStart(y, m) ==
    IF m <= 1 THEN 0 ELSE MonthStart(y, m - 1) + MonthLength(y, m - 1)

\* days from 1 January 2000 to the day y-m-d
DayNumber(y, m, d) == YearStart(y) + MonthStart(y, m) + d - 1

SecondOfDay(h, mi, sec) == (h * 60 + mi) * 60 + sec

\* the name's timestamp is strictly earlier than now minus days
StampedBefore(f, now, days) ==
    LET fileDay == DayNumber(StampYear(f), StampMonth(f), StampDay(f)) + days
        fileSec == SecondOfDay(StampHour(f), StampMinute(f), StampSecond(f))
        nowDay == DayNumber(now.year, now.month, now.day)
        nowSec == SecondOfDay(now.hour, now.minute, now.second)
    IN  \/ fileDay < nowDay
        \/ fileDay = nowDay /\ fileSec < nowSec
        \/ fileDay = nowDay /\ fileSec = nowSec /\ 0 < now.microsecond

\* the files of the folder when the last cleanup_old_logs began
FilesBefore == files \cup lastOp.removed

(***************************************************************************)
(* C1: get_logger before and after setup_logging.                          *)
(***************************************************************************)
WasSetUp(m) == \E i \in 1..Len(setups) : setups[i].mgr = m

GetLoggerOutcome ==
    lastOp.op = "get_logger" =>
        IF WasSetUp(lastOp.mgr)
        THEN lastOp.result \notin {None, "RuntimeError"}
        ELSE lastOp.result = "RuntimeError"

LifecycleStep ==
    \A m \in Mgrs :
        /\ (mgrs[m].logger = None /\ mgrs'[m].logger # None)
              => (lastOp'.op = "setup_logging" /\ lastOp'.mgr = m)
        /\ mgrs[m].logger # None => mgrs'[m].logger # None

\* C1: get_logger raises RuntimeError on a manager no setup_logging call was made
\* on and returns a non-null logger on one that was set up; only setup_logging
\* on that manager moves it from uninitialized to configured (construction and
\* cleanup_old_logs never do), and nothing moves it back.
TheoremC1 == []GetLoggerOutcome /\ [][LifecycleStep]_vars

\* a manager that was set up returned its logger while another manager, built
\* and never set up, is still uninitialized
WitnessC1 ==
    /\ lastOp.op = "get_logger"
    /\ lastOp.result = LoggerName
    /\ \E n \in Mgrs :
        n # lastOp.mgr /\ mgrs[n].constructed /\ mgrs[n].logger = None

(***************************************************************************)
(* C2, C3: cleanup_old_logs.                                               *)
(***************************************************************************)
\* C2: when every *.log file of the folder ends in a valid timestamp,
\* cleanup_old_logs(d) at UTC time now ends without error and removes exactly
\* the *.log files stamped strictly earlier than now minus d days; a file
\* stamped exactly at the threshold, newer files and files not ending in .log
\* stay.
TheoremC2 ==
    (/\ lastOp.op = "cleanup_old_logs"
     /\ \A f \in FilesBefore : IsLogName(f) => Conforms(f))
        => /\ lastOp.result = None
           /\ lastOp.removed =
                {f \in FilesBefore :
                    IsLogName(f) /\ StampedBefore(f, lastOp.now, lastOp.days)}
           /\ files = FilesBefore \ lastOp.removed

\* the default retention of 3 days, run at 2024-03-02 12:00:00: the file stamped
\* 4 days before was removed, the one stamped 2 days before is still there
WitnessC2 ==
    /\ lastOp.op = "cleanup_old_logs"
    /\ lastOp.days = DefaultDaysToKeep
    /\ lastOp.now = StartTime
    /\ lastOp.result = None
    /\ lastOp.removed = {infologpath(DateTime(2024, 2, 27, 12, 0, 0, 0))}
    /\ debuglogpath(DateTime(2024, 2, 29, 12, 0, 0, 0)) \in files

\* C3: cleanup_old_logs skips a *.log file whose name does not end in a valid
\* timestamp: no error reaches the caller, that file stays, and every
\* conforming file older than the threshold is removed, whatever the order of
\* the visit.
ClaimC3 ==
    lastOp.op = "cleanup_old_logs" =>
        /\ lastOp.result = None
        /\ \A f \in FilesBefore : (IsLogName(f) /\ ~Conforms(f)) => f \in files
        /\ \A f \in FilesBefore :
            (Conforms(f) /\ StampedBefore(f, lastOp.now, lastOp.days))
                => f \notin files

(***************************************************************************)
(* C8: the names of the files setup_logging creates.                       *)
(***************************************************************************)
\* f is prefix, then sep, then the time t as YYYY_MM_DD_HH_MM_SS, then ".log"
NamedAt(f, prefix, sep, t) ==
    /\ Len(f) = Len(prefix) + Len(sep) + 23
    /\ SubSeq(f, 1, Len(prefix) + Len(sep)) = prefix \o sep
    /\ Conforms(f)
    /\ StampYear(f) = t.year /\ StampMonth(f) = t.month /\ StampDay(f) = t.day
    /\ StampHour(f) = t.hour /\ StampMinute(f) = t.minute
    /\ StampSecond(f) = t.second

FileHandlersNamed(sep) ==
    \A i \in 1..Len(handlers) :
        handlers[i].kind = "FileHandler" =>
            \E t \in Times :
                /\ ~datetime_lt(clock, t)
                /\ NamedAt(handlers[i].file,
                           IF handlers[i].level = "INFO"
                           THEN InfoLogPrefix ELSE DebugLogPrefix,
                           sep, t)

\* C8 as stated: the files are named info_log_<timestamp>.log and
\* debug_log_<timestamp>.log, an underscore between the prefix and the timestamp.
ClaimC8 == FileHandlersNamed(<<"_">>)

\* C8 as amended: the files are named info_log<timestamp>.log and
\* debug_log<timestamp>.log: the prefix, then at once the UTC time of creation as
\* YYYY_MM_DD_HH_MM_SS, then .log.
TheoremC8 == FileHandlersNamed(<<>>)

\* a call with saving enabled named its two files a second apart
WitnessC8 ==
    \E i \in 1..Len(handlers) :
        /\ i > 1
        /\ handlers[i].kind = "FileHandler" /\ handlers[i].level = "DEBUG"
        /\ handlers[i].file = debuglogpath(DateTime(2024, 3, 2, 12, 0, 1, 0))
        /\ handlers[i - 1].file = infologpath(StartTime)

(***************************************************************************)
(* C9: the sinks setup_logging attaches.                                   *)
(***************************************************************************)
CountOf(kind) ==
    Cardinality({i \in 1..Len(handlers) : handlers[i].kind = kind})

SavingCalls == Cardinality({i \in 1..Len(setups) : setups[i].save_log})

SinkCount ==
    /\ CountOf("StreamHandler") = Len(setups)
    /\ CountOf("FileHandler") = 2 * SavingCalls

\* what one step does to the sinks; fresh: the files of the new sinks are new
SinkStep(fresh) ==
    /\ Len(handlers') >= Len(handlers)
    /\ SubSeq(handlers', 1, Len(handlers)) = handlers
    /\ handlers' # handlers =>
        LET added == SubSeq(handlers', Len(handlers) + 1, Len(handlers'))
        IN  /\ lastOp'.op = "setup_logging"
            /\ added[1].kind = "StreamHandler"
            /\ IF mgrs[lastOp'.mgr].save_log
               THEN /\ Len(added) = 3
                    /\ added[2].kind = "FileHandler" /\ added[2].level = "INFO"
                    /\ added[3].kind = "FileHandler" /\ added[3].level = "DEBUG"
                    /\ added[2].file # added[3].file
                    /\ {added[2].file, added[3].file} \subseteq files'
                    /\ IsLogName(added[2].file) /\ IsLogName(added[3].file)
                    /\ fresh => {added[2].file, added[3].file} \cap files = {}
               ELSE Len(added) = 1 /\ files' = files

\* C9 as stated: each setup_logging call attaches one console sink, plus two
\* file sinks (info, debug), each backed by a newly named file of the folder,
\* when save_log is true, and no file sink and no file when it is false; sinks
\* are never removed, and after k calls there are k console sinks and 2 file
\* sinks per saving call.
ClaimC9 == []SinkCount /\ [][SinkStep(TRUE)]_vars

\* C9 as amended: the same, except that the two files are named from the UTC
\* time of the call and need not be new: a call made within the same second as
\* an earlier one attaches two more file sinks to the files that call created.
TheoremC9 == []SinkCount /\ [][SinkStep(FALSE)]_vars

\* two calls in one second on two saving managers: six sinks on two files
WitnessC9 ==
    /\ Len(setups) = 2
    /\ setups[1].mgr # setups[2].mgr
    /\ setups[1].save_log /\ setups[2].save_log
    /\ Len(handlers) = 6
    /\ handlers[2].file = handlers[5].file
    /\ handlers[3].file = handlers[6].file

(***************************************************************************)
(* C4, C5, C6, C10: load_and_validate_config.                              *)
(***************************************************************************)
Loaded == loaded.outcome # "not called"

SixKeys ==
    {K_boards, K_exclude_boards, K_request_time_limit, K_output_path,
     K_save_log, K_clean_log}

KeysOf(doc) == {doc.items[i].k : i \in 1..Len(doc.items)}

AbsentKeys(doc) == SixKeys \ KeysOf(doc)

\* the file holds a JSON object
HoldsObject == fs.exists /\ fs.valid /\ fs.doc.type = "object"

MissingFieldsError ==
    /\ loaded.outcome = "ValueError"
    /\ loaded.message = "Missing required fields in config: "

InvalidJSONError ==
    /\ loaded.outcome = "ValueError"
    /\ loaded.message = "Invalid JSON format in "

\* the names an error message lists, read off its text between the commas
ListedNames(detail) ==
    LET parts == Split(detail, ",")
    IN  [i \in 1..Len(parts) |-> IF i = 1 THEN parts[i] ELSE Tail(parts[i])]

\* C4: for a file that holds a JSON object, the call fails with the 'Missing
\* required fields' ValueError exactly when one of the six required keys is
\* absent, and the message lists the absent keys: each once and nothing else.
TheoremC4 ==
    (Loaded /\ HoldsObject) =>
        /\ MissingFieldsError <=> AbsentKeys(fs.doc) # {}
        /\ MissingFieldsError =>
            LET names == ListedNames(loaded.detail)
            IN  /\ {names[i] : i \in 1..Len(names)} = AbsentKeys(fs.doc)
                /\ Len(names) = Cardinality(AbsentKeys(fs.doc))

\* a file with four of the six keys and one more key: the two absent are listed
WitnessC4 ==
    /\ HoldsObject
    /\ K_comment \in KeysOf(fs.doc)
    /\ MissingFieldsError
    /\ loaded.detail = K_boards \o <<",", " ">> \o K_clean_log

\* C5: for a well-formed file with all six required keys the call returns a
\* mapping equal to the file's JSON content: no key added, removed or
\* rewritten, other keys kept, whatever the types and values under the keys.
TheoremC5 ==
    (Loaded /\ HoldsObject /\ AbsentKeys(fs.doc) = {}) =>
        /\ loaded.outcome = "return"
        /\ loaded.value.type = "object"
        /\ loaded.value = fs.doc

\* seven keys, boards a string and request_time_limit 0, returned as they are
WitnessC5 ==
    /\ loaded.outcome = "return"
    /\ loaded.value.type = "object"
    /\ Len(loaded.value.items) = 7
    /\ \E i \in 1..7 :
        /\ loaded.value.items[i].k = K_request_time_limit
        /\ loaded.value.items[i].v = JNumber(<<"0">>)

ClaimC10 ==
    Loaded =>
        \/ /\ loaded.outcome = "return"
           /\ loaded.value.type = "object"
           /\ SixKeys \subseteq KeysOf(loaded.value)
        \/ loaded.outcome = "FileNotFoundError"
        \/ InvalidJSONError
        \/ MissingFieldsError

(***************************************************************************)
(* C7: check_positive_float.                                               *)
(***************************************************************************)
\* the fraction digits as a count of units of the last digit's place
RECURSIVE FracUnits(_)
FracUnits(frac) ==
    IF Len(frac) = 0 THEN 0
    ELSE DigitVal(frac[1]) * Pow10(Len(frac) - 1) + FracUnits(Tail(frac))

====
